---- MODULE Spec2Model ----
(***************************************************************************)
(* Model of the price tracker: the price parser and extractor              *)
(* (services/price_scraper.py), the fetch strategy selector (same file)    *)
(* and the worker check cycle (background_worker.py, database/db.py).      *)
(*                                                                         *)
(* Texts are sequences of one-character strings.  Prices are counted in    *)
(* hundredths (cents): every numeric string the parser converts has zero   *)
(* or two fractional digits, so float(s) is represented exactly by         *)
(* 100 * s.  None is Python's None.                                        *)
(***************************************************************************)
EXTENDS Integers, Sequences, FiniteSets, TLC

VARIABLES text, price, via, reprice, pstage,
          doc, selector, eprice, estage,
          fin, fout, fstage,
          db, products, idx, nextId, cycles, lastFetched, alerts, changes, lastCheck, wstage

parseVars == <<text, price, via, reprice, pstage>>
extractVars == <<doc, selector, eprice, estage>>
fetchVars == <<fin, fout, fstage>>
workerVars ==
    <<db, products, idx, nextId, cycles, lastFetched, alerts, changes, lastCheck, wstage>>
vars == <<parseVars, extractVars, fetchVars, workerVars>>

\* Python's None where a price is expected (prices are never negative)
None == -1

\* ---------------------------------------------------------------- bounds
MaxLen == 5
MaxGroups == 1
MaxProducts == 2
MaxCycles == 2

\* ------------------------------------------------------------ characters
Digits == {"0", "1", "2", "3", "4", "5", "6", "7", "8", "9"}

DigitVal(c) ==
    CASE c = "0" -> 0 [] c = "1" -> 1 [] c = "2" -> 2 [] c = "3" -> 3
      [] c = "4" -> 4 [] c = "5" -> 5 [] c = "6" -> 6 [] c = "7" -> 7
      [] c = "8" -> 8 [] c = "9" -> 9

DigitChar(n) ==
    CASE n = 0 -> "0" [] n = 1 -> "1" [] n = 2 -> "2" [] n = 3 -> "3"
      [] n = 4 -> "4" [] n = 5 -> "5" [] n = 6 -> "6" [] n = 7 -> "7"
      [] n = 8 -> "8" [] n = 9 -> "9"

\* \d, \s, [$R] and [,\s] of the regular expressions
IsDigit(t, i) == i >= 1 /\ i <= Len(t) /\ t[i] \in Digits
IsSpace(t, i) == i >= 1 /\ i <= Len(t) /\ t[i] \in {" ", "\t"}
IsSym(t, i) == i >= 1 /\ i <= Len(t) /\ t[i] \in {"$", "R"}
IsSep(t, i) == i >= 1 /\ i <= Len(t) /\ t[i] \in {",", " ", "\t"}

\* text.strip()
RECURSIVE lstrip(_)
lstrip(t) == IF Len(t) > 0 /\ IsSpace(t, 1) THEN lstrip(Tail(t)) ELSE t

RECURSIVE rstrip(_)
rstrip(t) ==
    IF Len(t) > 0 /\ IsSpace(t, Len(t)) THEN rstrip(SubSeq(t, 1, Len(t) - 1)) ELSE t

strip(t) == rstrip(lstrip(t))

\* ------------------------------------------------ regular expression parts
\* \d+ from position i, greedy: the position after the last digit of the run
RECURSIVE DigitsEnd(_, _)
DigitsEnd(t, i) == IF IsDigit(t, i) THEN DigitsEnd(t, i + 1) ELSE i

\* \s* from position i, greedy
RECURSIVE SpacesEnd(_, _)
SpacesEnd(t, i) == IF IsSpace(t, i) THEN SpacesEnd(t, i + 1) ELSE i

\* (?:[,\s]\d{3})* from position i, greedy
RECURSIVE GroupsEnd(_, _)
GroupsEnd(t, i) ==
    IF IsSep(t, i) /\ IsDigit(t, i + 1) /\ IsDigit(t, i + 2) /\ IsDigit(t, i + 3)
    THEN GroupsEnd(t, i + 4)
    ELSE i

\* (?:\.\d{2})? from position i, greedy
FracEnd(t, i) ==
    IF i <= Len(t) /\ t[i] = "." /\ IsDigit(t, i + 1) /\ IsDigit(t, i + 2)
    THEN i + 3
    ELSE i

\* \d+(?:[,\s]\d{3})*(?:\.\d{2})? from a digit at position i.  Every later
\* part is optional, and a shorter alternative always stops in front of a
\* character ([0-9], a separator before three digits, or ".") that neither
\* \s*[$R] nor the end of the pattern can consume, so the greedy end is the
\* only end a match can have.
NumRunEnd(t, i) == FracEnd(t, GroupsEnd(t, DigitsEnd(t, i)))

\* ------------------------------------------------------------ conversions
RECURSIVE Remove(_, _)
Remove(t, c) ==
    IF t = <<>> THEN <<>>
    ELSE IF Head(t) = c THEN Remove(Tail(t), c)
    ELSE <<Head(t)>> \o Remove(Tail(t), c)

RECURSIVE IntOf(_)
IntOf(t) ==
    IF t = <<>> THEN 0 ELSE 10 * IntOf(SubSeq(t, 1, Len(t) - 1)) + DigitVal(t[Len(t)])

\* the ValueError float() raises, where a price is expected
ValueError == -2

\* float(s) in cents for s = digits or digits "." digit digit; ValueError
\* for a string with any other character left in it (a tab or other
\* whitespace that replace(' ', '') does not delete)
FloatOf(s, d) ==
    IF d > 1 /\ d = Len(s) + 1 THEN 100 * IntOf(s)
    ELSE IF d > 1 /\ FracEnd(s, d) = Len(s) + 1 /\ d + 2 = Len(s)
         THEN 100 * IntOf(SubSeq(s, 1, d - 1)) + IntOf(SubSeq(s, d + 1, d + 2))
    ELSE ValueError

to_float(s) == FloatOf(s, DigitsEnd(s, 1))

RECURSIVE DigitsOf(_)
DigitsOf(n) == IF n < 10 THEN <<DigitChar(n)>> ELSE DigitsOf(n \div 10) \o <<DigitChar(n % 10)>>

\* str(price) of a float below 1e16 that is a whole number of cents: the
\* shortest decimal that reads back as the same float
float_str(c) ==
    LET n == c \div 100
        f == c % 100
    IN  IF f % 10 = 0 THEN DigitsOf(n) \o <<".">> \o <<DigitChar(f \div 10)>>
        ELSE DigitsOf(n) \o <<".">> \o <<DigitChar(f \div 10), DigitChar(f % 10)>>

\* ------------------------------------------------------------ parse_price
\* re.search found nothing (a match's group(1) is never empty)
NoMatch == <<>>

\* re.search(r'[$R]\s*(\d+(?:[,\s]\d{3})*(?:\.\d{2})?)', text).group(1),
\* searching from position i
RECURSIVE SymbolFirst(_, _)
SymbolFirst(t, i) ==
    IF i > Len(t) THEN NoMatch
    ELSE IF IsSym(t, i) /\ IsDigit(t, SpacesEnd(t, i + 1))
    THEN SubSeq(t, SpacesEnd(t, i + 1), NumRunEnd(t, SpacesEnd(t, i + 1)) - 1)
    ELSE SymbolFirst(t, i + 1)

\* re.search(r'(\d+(?:[,\s]\d{3})*(?:\.\d{2})?)\s*[$R]', text).group(1)
RECURSIVE SymbolLast(_, _)
SymbolLast(t, i) ==
    IF i > Len(t) THEN NoMatch
    ELSE IF IsDigit(t, i) /\ IsSym(t, SpacesEnd(t, NumRunEnd(t, i)))
    THEN SubSeq(t, i, NumRunEnd(t, i) - 1)
    ELSE SymbolLast(t, i + 1)

\* the two patterns' matches, in the order of the list
currency_patterns(t) == <<SymbolFirst(t, 1), SymbolLast(t, 1)>>

InWindowNoFloor(p) == p < 100000000

\* the sanity check of the currency path: 0.01 < price < 1000000
InWindow(p) == 1 < p /\ p < 100000000

AboveMinimumStrict(p) == p > 1000

\* the threshold of the fallback path: price >= 10
AboveMinimum(p) == p >= 1000

\* if 0.01 < price < 1000000: return price (nothing after a ValueError)
Checked(p) == IF p # ValueError /\ InWindow(p) THEN p ELSE None

CurrencyValueCommaOnly(m) ==
    IF m = NoMatch THEN None ELSE Checked(to_float(Remove(m, ",")))

\* body of "for pattern in currency_patterns" for one match: strip the
\* grouping separators, convert, apply the sanity check
CurrencyValue(m) ==
    IF m = NoMatch THEN None ELSE Checked(to_float(Remove(Remove(m, ","), " ")))

\* the first of two results that is a price
OrElse(first, second) == IF first # None THEN first ELSE second

\* for pattern in currency_patterns: the first pattern whose match passes
CurrencyLoop(matches) == OrElse(CurrencyValue(matches[1]), CurrencyValue(matches[2]))

CurrencyResult(t) == CurrencyLoop(currency_patterns(t))

\* re.findall(r'\d+(?:\.\d{2})?', text) scanned from position i, and the
\* loop that returns the first number that is at least 10
RECURSIVE FallbackResult(_, _)
FallbackResult(t, i) ==
    IF i > Len(t) THEN None
    ELSE IF ~IsDigit(t, i) THEN FallbackResult(t, i + 1)
    ELSE IF AboveMinimum(to_float(SubSeq(t, i, FracEnd(t, DigitsEnd(t, i)) - 1)))
    THEN to_float(SubSeq(t, i, FracEnd(t, DigitsEnd(t, i)) - 1))
    ELSE FallbackResult(t, FracEnd(t, DigitsEnd(t, i)))

\* parse_price after text.strip()
ParseStripped(t) == OrElse(CurrencyResult(t), FallbackResult(t, 1))

parse_price(raw) == ParseStripped(strip(raw))

\* which return statement of parse_price produced its value
PathOf(currency, fallback) ==
    IF currency # None THEN "currency" ELSE IF fallback # None THEN "fallback" ELSE "none"

PathStripped(t) == PathOf(CurrencyResult(t), FallbackResult(t, 1))

parse_path(raw) == PathStripped(strip(raw))

\* ------------------------------------------------------------ parser inputs
Alphabet == {"R", "$", "1", "0", ".", ",", " "}

RECURSIVE Strings(_)
Strings(n) ==
    IF n = 0 THEN {<<>>}
    ELSE LET S == Strings(n - 1) IN
         S \cup {Append(s, c) : s \in {x \in S : Len(x) = n - 1}, c \in Alphabet}

\* texts of the shape  symbol, optional space, grouped number  and
\* grouped number, optional space, symbol
Heads == {<<"1">>, <<"1", "2">>, <<"2", "9", "9">>}
Triplets == {<<"0", "0", "0">>, <<"2", "9", "9">>}
Fractions == {<<>>, <<".", "0", "0">>, <<".", "5", "0">>, <<".", "0", "5">>}

RECURSIVE GroupRuns(_)
GroupRuns(n) ==
    IF n = 0 THEN {<<>>}
    ELSE LET S == GroupRuns(n - 1) IN
         S \cup {s \o <<c>> \o g : s \in {x \in S : Len(x) = 4 * (n - 1)},
                                   c \in {",", " "}, g \in Triplets}

\* (at most eight digits before the fraction, so that a price in cents stays
\* within the model checker's 32-bit integers)
GroupedNumbers ==
    {n \o f : n \in {x \in {h \o g : h \in Heads, g \in GroupRuns(MaxGroups)} : Len(x) <= 10},
             f \in Fractions}

GroupedTexts ==
    {<<s>> \o w \o n : s \in {"R", "$"}, w \in {<<>>, <<" ">>}, n \in GroupedNumbers}
    \cup {n \o w \o <<s>> : s \in {"R", "$"}, w \in {<<>>, <<" ">>}, n \in GroupedNumbers}

TextSpaceGrouped == <<"R", " ", "1", " ", "2", "9", "9", ",", "0", "0">>
TextTabGrouped == <<"R", "1", "\t", "2", "9", "9">>
TextTooLarge == <<"R", "2", "0", "0", "0", "0", "0", "0">>
TextLargeWithCents == <<"R", "1", ",", "5", "0", "0", ",", "0", "0", "0", ".", "0", "0">>
TextPadded == <<" ", "\t", "4", "9", "5", "R", "\t">>

ExampleTexts == {TextSpaceGrouped, TextTabGrouped, TextTooLarge, TextLargeWithCents, TextPadded}

Texts == Strings(MaxLen) \cup GroupedTexts \cup ExampleTexts

\* ---------------------------------------------------------- extract_price
\* A parsed document is the sequence of its elements in document order; an
\* element has the attributes the probes look at, sel (whether the caller's
\* CSS selector selects it) and text, its get_text().  other is raw markup
\* text outside every element's text (a script body, a comment, an attribute
\* value).
Element(cls, id, itemprop, data_price, sel, txt) ==
    [cls |-> cls, id |-> id, itemprop |-> itemprop, data_price |-> data_price,
     sel |-> sel, text |-> txt]

\* the attribute values in which re.compile(word, re.I).search finds word
Containing(word) ==
    CASE word = "price" -> {"price", "product-price", "Price-now"}
      [] word = "cost" -> {"cost"}
      [] word = "amount" -> {"amount"}
      [] word = "product-price" -> {"product-price"}

price_patterns_amount_first ==
    <<"class~price", "id~price", "class~amount", "itemprop=price", "class~cost",
      "data-price", "class~product-price">>

price_patterns ==
    <<"class~price", "id~price", "itemprop=price", "class~cost", "class~amount",
      "data-price", "class~product-price">>

ProbeMatchesCostById(pattern, e) ==
    CASE pattern = "class~price" -> e.cls \in Containing("price")
      [] pattern = "id~price" -> e.id \in Containing("price")
      [] pattern = "itemprop=price" -> e.itemprop = "price"
      [] pattern = "class~cost" -> e.cls \in Containing("cost") \/ e.id \in Containing("cost")
      [] pattern = "class~amount" -> e.cls \in Containing("amount")
      [] pattern = "data-price" -> e.data_price
      [] pattern = "class~product-price" -> e.cls \in Containing("product-price")

\* soup.find_all(attrs=pattern) selects e
ProbeMatches(pattern, e) ==
    CASE pattern = "class~price" -> e.cls \in Containing("price")
      [] pattern = "id~price" -> e.id \in Containing("price")
      [] pattern = "itemprop=price" -> e.itemprop = "price"
      [] pattern = "class~cost" -> e.cls \in Containing("cost")
      [] pattern = "class~amount" -> e.cls \in Containing("amount")
      [] pattern = "data-price" -> e.data_price
      [] pattern = "class~product-price" -> e.cls \in Containing("product-price")

\* `if price:` -- None and 0.0 are both false
Truthy(p) == p # None /\ p # 0

\* if price: return price -- else go on with the rest
IfPrice(p, rest) == IF Truthy(p) THEN p ELSE rest

\* for element in elements: price = parse_price(element.get_text());
\* if price: return price
RECURSIVE FirstPrice(_)
FirstPrice(elements) ==
    IF elements = <<>> THEN None
    ELSE IfPrice(parse_price(Head(elements).text), FirstPrice(Tail(elements)))

\* the selectors a caller passes: none, one that soup.select accepts, one it
\* rejects with an exception
NoSelector == ""
BadSelector == "("
Selectors == {NoSelector, ".sel", BadSelector}

\* an exception leaves the function, where a price is expected
Raised == -3

SelectorStage(elements, css_selector) ==
    IF css_selector = NoSelector THEN None
    ELSE IF css_selector = BadSelector THEN Raised
    ELSE LET Selected(e) == e.sel IN FirstPrice(SelectSeq(elements, Selected))

\* for pattern in price_patterns, from pattern number k on
RECURSIVE HeuristicStage(_, _)
HeuristicStage(elements, k) ==
    IF k > Len(price_patterns) THEN None
    ELSE LET Probed(e) == ProbeMatches(price_patterns[k], e)
         IN  OrElse(FirstPrice(SelectSeq(elements, Probed)), HeuristicStage(elements, k + 1))

\* re.findall(r'[R$]\s*\d+(?:[,\s]\d{3})*(?:\.\d{2})?', html) from position
\* i on, and the loop that returns the first match parse_price accepts
RECURSIVE RegexStage(_, _)
RegexStage(html, i) ==
    IF i > Len(html) THEN None
    ELSE IF IsSym(html, i) /\ IsDigit(html, SpacesEnd(html, i + 1))
    THEN IfPrice(parse_price(SubSeq(html, i, NumRunEnd(html, SpacesEnd(html, i + 1)) - 1)),
                 RegexStage(html, NumRunEnd(html, SpacesEnd(html, i + 1))))
    ELSE RegexStage(html, i + 1)

\* the raw markup of a document: each element's text between tags, then the
\* other text; the tags themselves hold no digit and no currency symbol
RECURSIVE Markup(_)
Markup(elements) ==
    IF elements = <<>> THEN <<>>
    ELSE <<"<">> \o Head(elements).text \o <<">">> \o Markup(Tail(elements))

RawHtml(d) == Markup(d.elements) \o <<"<">> \o d.other \o <<">">>

\* an exception ends the call, a price is returned, None goes on
Unless(raised, rest) == IF raised = Raised THEN Raised ELSE rest

extract_price_selector_last(d, css_selector) ==
    Unless(SelectorStage(d.elements, css_selector),
           OrElse(HeuristicStage(d.elements, 1),
                  OrElse(SelectorStage(d.elements, css_selector), RegexStage(RawHtml(d), 1))))

extract_price(d, css_selector) ==
    OrElse(SelectorStage(d.elements, css_selector),
           OrElse(HeuristicStage(d.elements, 1), RegexStage(RawHtml(d), 1)))

\* ---------------------------------------------------------- extractor inputs
MaxElems == 2

TextRand1299 == <<"R", "1", ",", "2", "9", "9", ".", "0", "0">>
TextRand50 == <<"R", "5", "0">>
TextDollar4999 == <<"$", "4", "9", ".", "9", "9">>
TextNoPrice == <<"Q", "t", "y", " ", "1">>

ElementTexts == {TextRand1299, TextRand50, TextNoPrice}

Plain(txt) == Element("", "", "", FALSE, FALSE, txt)

ElementShapes ==
    {Plain(<<>>),
     [Plain(<<>>) EXCEPT !.sel = TRUE],
     [Plain(<<>>) EXCEPT !.sel = TRUE, !.cls = "amount"],
     [Plain(<<>>) EXCEPT !.cls = "price"],
     [Plain(<<>>) EXCEPT !.cls = "Price-now"],
     [Plain(<<>>) EXCEPT !.cls = "product-price"],
     [Plain(<<>>) EXCEPT !.cls = "cost"],
     [Plain(<<>>) EXCEPT !.cls = "amount"],
     [Plain(<<>>) EXCEPT !.id = "price"],
     [Plain(<<>>) EXCEPT !.id = "cost"],
     [Plain(<<>>) EXCEPT !.itemprop = "price"],
     [Plain(<<>>) EXCEPT !.data_price = TRUE]}

\* a price without a currency symbol, in an element found by id, by class
\* or by nothing
TextBare1299 == <<"1", "2", "9", "9", ".", "0", "0">>

BareElements ==
    {Plain(TextBare1299),
     [Plain(TextBare1299) EXCEPT !.id = "cost"],
     [Plain(TextBare1299) EXCEPT !.cls = "cost"]}

Elements ==
    {[e EXCEPT !.text = t] : e \in ElementShapes, t \in ElementTexts} \cup BareElements

RECURSIVE ElementSeqs(_)
ElementSeqs(n) ==
    IF n = 0 THEN {<<>>}
    ELSE LET S == ElementSeqs(n - 1) IN
         S \cup {Append(s, e) : s \in {x \in S : Len(x) = n - 1}, e \in Elements}

Documents ==
    {[elements |-> es, other |-> o] : es \in ElementSeqs(MaxElems), o \in {<<>>, TextDollar4999}}

\* ------------------------------------------------------------- fetch_price
\* What the network and the browser do during one call is part of the
\* call's input:  static  is the outcome of requests.get/raise_for_status,
\* browser  says which step of the browser session fails, if any.
StaticOutcomes == {"ok", "network_error", "bad_status", "timeout"}
BrowserOutcomes ==
    {"ok", "import_error", "launch_error", "navigation_error", "wait_timeout",
     "page_source_error"}

\* the exception classes that occur; all of them derive from Exception
ExceptionClasses ==
    {"ImportError", "ConnectionError", "HTTPError", "Timeout", "WebDriverException",
     "TimeoutException", "SelectorSyntaxError"}

NoException == ""

\* the try block's outcome: exc is the exception it ends with, ret the
\* value it returns otherwise; launched counts webdriver.Chrome() calls that
\* returned a driver, disposed counts driver.quit() calls
Outcome(exc, ret, launched, disposed) ==
    [exc |-> exc, ret |-> ret, launched |-> launched, disposed |-> disposed]

\* return extract_price(...), an exception of extract_price included
Extracted(p, launched, disposed) ==
    IF p = Raised THEN Outcome("SelectorSyntaxError", None, launched, disposed)
    ELSE Outcome(NoException, p, launched, disposed)

\* the try block of fetch_price_simple: one GET, then extract_price
simple_body(in) ==
    IF in.static = "network_error" THEN Outcome("ConnectionError", None, 0, 0)
    ELSE IF in.static = "timeout" THEN Outcome("Timeout", None, 0, 0)
    ELSE IF in.static = "bad_status" THEN Outcome("HTTPError", None, 0, 0)
    ELSE Extracted(extract_price(in.static_html, in.css_selector), 0, 0)

\* the try block of fetch_price_selenium, statement by statement
selenium_body(in) ==
    IF in.browser = "import_error" THEN Outcome("ImportError", None, 0, 0)
    ELSE IF in.browser = "launch_error" THEN Outcome("WebDriverException", None, 0, 0)
    ELSE IF in.browser = "navigation_error" THEN Outcome("WebDriverException", None, 1, 0)
    ELSE IF in.browser = "wait_timeout" THEN Outcome("TimeoutException", None, 1, 0)
    ELSE IF in.browser = "page_source_error" THEN Outcome("WebDriverException", None, 1, 0)
    ELSE Extracted(extract_price(in.browser_html, in.css_selector), 1, 1)

\* what a call returns: raised is the exception that leaves it
Returned(raised, ret, b) ==
    [raised |-> raised, ret |-> ret, launched |-> b.launched, disposed |-> b.disposed]

\* except Exception as e: return None
ExceptException(b) ==
    IF b.exc = NoException THEN Returned(NoException, b.ret, b)
    ELSE IF b.exc \in ExceptionClasses THEN Returned(NoException, None, b)
    ELSE Returned(b.exc, None, b)

ExceptImportErrorOnly(b) ==
    IF b.exc = NoException THEN Returned(NoException, b.ret, b)
    ELSE IF b.exc = "ImportError" THEN Returned(NoException, None, b)
    ELSE Returned(b.exc, None, b)

\* except ImportError: return None / except Exception as e: return None
ExceptImportErrorThenException(b) ==
    IF b.exc = NoException THEN Returned(NoException, b.ret, b)
    ELSE IF b.exc = "ImportError" THEN Returned(NoException, None, b)
    ELSE IF b.exc \in ExceptionClasses THEN Returned(NoException, None, b)
    ELSE Returned(b.exc, None, b)

fetch_price_simple(in) == ExceptException(simple_body(in))

fetch_price_selenium_import_only(in) == ExceptImportErrorOnly(selenium_body(in))

fetch_price_selenium(in) == ExceptImportErrorThenException(selenium_body(in))

\* the result of a call that only ran fetch_price_selenium: gets counts the
\* HTTP GETs issued, browser_calls the calls of fetch_price_selenium
BrowserOnly(b) ==
    [raised |-> b.raised, ret |-> b.ret, gets |-> 0, browser_calls |-> 1,
     launched |-> b.launched, disposed |-> b.disposed]

\* the result of a call that ran fetch_price_simple and then
\* fetch_price_selenium: if price: return price / return None
StaticThenBrowser(b) ==
    [raised |-> b.raised,
     ret |-> IF b.raised = NoException /\ Truthy(b.ret) THEN b.ret ELSE None,
     gets |-> 1, browser_calls |-> 1, launched |-> b.launched, disposed |-> b.disposed]

\* the result of a call that only ran fetch_price_simple
StaticOnly(st) ==
    [raised |-> st.raised, ret |-> st.ret, gets |-> 1, browser_calls |-> 0,
     launched |-> 0, disposed |-> 0]

\* price = fetch_price_simple(...); if price: return price; else go on
\* with the browser
AfterStatic(st, browser) ==
    IF st.raised # NoException \/ Truthy(st.ret) THEN StaticOnly(st)
    ELSE StaticThenBrowser(browser)

fetch_price_no_fallback(in) ==
    IF in.force_selenium THEN BrowserOnly(fetch_price_selenium(in))
    ELSE StaticOnly(fetch_price_simple(in))

fetch_price_static_always(in) == AfterStatic(fetch_price_simple(in), fetch_price_selenium(in))

fetch_price(in) ==
    IF in.force_selenium THEN BrowserOnly(fetch_price_selenium(in))
    ELSE AfterStatic(fetch_price_simple(in), fetch_price_selenium(in))

\* ------------------------------------------------------------ fetch inputs
PageNoPrice == [elements |-> <<Plain(TextNoPrice)>>, other |-> <<>>]
PageScriptPrice == [elements |-> <<Plain(TextNoPrice)>>, other |-> TextDollar4999]
PageItemprop ==
    [elements |-> <<[Plain(TextRand1299) EXCEPT !.itemprop = "price"]>>, other |-> <<>>]
PageSelected ==
    [elements |-> <<[Plain(TextRand1299) EXCEPT !.cls = "price"],
                    [Plain(TextRand50) EXCEPT !.sel = TRUE]>>,
     other |-> <<>>]

Pages == {PageNoPrice, PageScriptPrice, PageItemprop, PageSelected}

FetchInput(force_selenium, css_selector, static, static_html, browser, browser_html) ==
    [force_selenium |-> force_selenium, css_selector |-> css_selector,
     static |-> static, static_html |-> static_html,
     browser |-> browser, browser_html |-> browser_html]

FetchInputs ==
    {FetchInput(f, c, s, sh, b, bh) :
        f \in BOOLEAN, c \in Selectors, s \in StaticOutcomes, sh \in Pages,
        b \in BrowserOutcomes, bh \in Pages}

NoInput == FetchInput(FALSE, NoSelector, "ok", PageNoPrice, "ok", PageNoPrice)

NoOutput ==
    [raised |-> NoException, ret |-> None, gets |-> 0, browser_calls |-> 0,
     launched |-> 0, disposed |-> 0]

\* ------------------------------------------------------------ check cycle
\* db is the products table: a function from the ids of the rows it holds
\* to the row's current_price and use_selenium.  products is the list
\* get_all_products returned to the running cycle, idx the loop's position
\* in it.  lastFetched, changes and alerts record, per product id, the most
\* recent price fetch_price returned for it, how often such a price differed
\* from the one before it, and how many send_price_alert calls were made.
ProductIds == 1..MaxProducts

NoPrices == [i \in ProductIds |-> None]
NoCounts == [i \in ProductIds |-> 0]
NoCheck == [id |-> 0, old_price |-> None, new_price |-> None, alerted |-> FALSE]

\* SELECT * FROM products ORDER BY created_at DESC, rows with id <= k
RECURSIVE get_all_products(_, _)
get_all_products(table, k) ==
    IF k = 0 THEN <<>>
    ELSE IF k \in DOMAIN table
         THEN <<[id |-> k, old_price |-> table[k].current_price,
                 use_selenium |-> table[k].use_selenium]>> \o get_all_products(table, k - 1)
         ELSE get_all_products(table, k - 1)

\* UPDATE products SET current_price = ? WHERE id = ?
update_product_price(table, product_id, new_price) ==
    IF product_id \in DOMAIN table
    THEN [table EXCEPT ![product_id].current_price = new_price]
    ELSE table

\* INSERT INTO products ...
add_product(table, product_id, current_price, use_selenium) ==
    [i \in DOMAIN table \cup {product_id} |->
        IF i = product_id
        THEN [current_price |-> current_price, use_selenium |-> use_selenium]
        ELSE table[i]]

\* DELETE FROM products WHERE id = ?
delete_product(table, product_id) == [i \in DOMAIN table \ {product_id} |-> table[i]]

check_product_always_alert(old_price, new_price) ==
    [update |-> Truthy(new_price), alert |-> Truthy(new_price) /\ Truthy(old_price)]

\* the body of "for product in products" after fetch_price returned
\* new_price: whether it calls update_product_price and send_price_alert
check_product(old_price, new_price) ==
    [update |-> Truthy(new_price),
     alert |-> Truthy(new_price) /\ Truthy(old_price) /\ old_price # new_price]

\* what the product's page and the network do during one check
CheckInputs(use_selenium) ==
    {FetchInput(use_selenium, NoSelector, s, sh, b, bh) :
        s \in {"ok", "timeout"}, sh \in {PageNoPrice, PageItemprop},
        b \in {"ok", "navigation_error"}, bh \in {PageScriptPrice, PageItemprop}}

\* ------------------------------------------------------------ idle values
\* the values of the variables a specification does not use
ParseIdle ==
    /\ text = <<>> /\ price = None /\ via = "none" /\ reprice = None /\ pstage = "idle"

ExtractIdle ==
    /\ doc = [elements |-> <<>>, other |-> <<>>] /\ selector = ""
    /\ eprice = None /\ estage = "idle"

FetchIdle == fin = NoInput /\ fout = NoOutput /\ fstage = "idle"

WorkerIdle ==
    /\ db = <<>> /\ products = <<>> /\ idx = 0 /\ nextId = 1 /\ cycles = 0
    /\ lastFetched = NoPrices /\ alerts = NoCounts /\ changes = NoCounts
    /\ lastCheck = NoCheck /\ wstage = "idle"

\* ------------------------------------------------------- parser operations
\* price = parse_price(text)
Parse ==
    /\ pstage = "text"
    /\ price' = parse_price(text)
    /\ via' = parse_path(text)
    /\ pstage' = "parsed"
    /\ UNCHANGED <<text, reprice, extractVars, fetchVars, workerVars>>

\* parse_price(str(price)) of a price parse_price returned
Reparse ==
    /\ pstage = "parsed"
    /\ price # None
    /\ reprice' = parse_price(float_str(price))
    /\ pstage' = "reparsed"
    /\ UNCHANGED <<text, price, via, extractVars, fetchVars, workerVars>>

InitParse ==
    /\ text \in Texts
    /\ price = None /\ via = "none" /\ reprice = None /\ pstage = "text"
    /\ ExtractIdle /\ FetchIdle /\ WorkerIdle

NextParse == Parse \/ Reparse

SpecParse == InitParse /\ [][NextParse]_vars

\* ------------------------------------------------------ extractor operations
\* eprice = extract_price(html, css_selector)
Extract ==
    /\ estage = "html"
    /\ eprice' = extract_price(doc, selector)
    /\ estage' = "done"
    /\ UNCHANGED <<doc, selector, parseVars, fetchVars, workerVars>>

InitExtract ==
    /\ doc \in Documents
    /\ selector \in Selectors
    /\ eprice = None /\ estage = "html"
    /\ ParseIdle /\ FetchIdle /\ WorkerIdle

NextExtract == Extract

SpecExtract == InitExtract /\ [][NextExtract]_vars

\* -------------------------------------------------------- fetch operations
\* fout = fetch_price(url, css_selector, force_selenium)
FetchPrice ==
    /\ fstage = "call"
    /\ fout' = fetch_price(fin)
    /\ fstage' = "returned"
    /\ UNCHANGED <<fin, parseVars, extractVars, workerVars>>

InitFetch ==
    /\ fin \in FetchInputs
    /\ fout = NoOutput /\ fstage = "call"
    /\ ParseIdle /\ ExtractIdle /\ WorkerIdle

NextFetch == FetchPrice

SpecFetch == InitFetch /\ [][NextFetch]_vars

\* ------------------------------------------------------- worker operations
\* add() after fetch_price returned current_price
AddFetched(current_price, use_selenium) ==
    /\ current_price # None
    /\ db' = add_product(db, nextId, current_price, use_selenium)
    /\ lastFetched' = [lastFetched EXCEPT ![nextId] = current_price]

\* app.py add(): fetch the initial price, reject the product when there is
\* none, insert it otherwise
Add ==
    /\ wstage \in {"sleeping", "checking"}
    /\ nextId <= MaxProducts
    /\ \E use_selenium \in BOOLEAN : \E in \in CheckInputs(use_selenium) :
         AddFetched(fetch_price(in).ret, use_selenium)
    /\ nextId' = nextId + 1
    /\ UNCHANGED <<products, idx, cycles, alerts, changes, lastCheck, wstage,
                   parseVars, extractVars, fetchVars>>

\* app.py delete()
Delete ==
    /\ wstage \in {"sleeping", "checking"}
    /\ \E product_id \in DOMAIN db : db' = delete_product(db, product_id)
    /\ UNCHANGED <<products, idx, nextId, cycles, lastFetched, alerts, changes, lastCheck,
                   wstage, parseVars, extractVars, fetchVars>>

\* check_prices_cycle up to the loop: read the table; return when it is empty
CycleStart ==
    /\ wstage = "sleeping"
    /\ cycles < MaxCycles
    /\ cycles' = cycles + 1
    /\ products' = get_all_products(db, MaxProducts)
    /\ idx' = 1
    /\ wstage' = IF products' = <<>> THEN "sleeping" ELSE "checking"
    /\ UNCHANGED <<db, nextId, lastFetched, alerts, changes, lastCheck,
                   parseVars, extractVars, fetchVars>>

\* the loop body for product after fetch_price returned new_price
StoreAndAlert(product, new_price, step) ==
    /\ db' = IF step.update THEN update_product_price(db, product.id, new_price) ELSE db
    /\ alerts' = IF step.alert THEN [alerts EXCEPT ![product.id] = @ + 1] ELSE alerts
    /\ changes' = IF Truthy(new_price) /\ lastFetched[product.id] # new_price
                  THEN [changes EXCEPT ![product.id] = @ + 1]
                  ELSE changes
    /\ lastFetched' = IF Truthy(new_price)
                      THEN [lastFetched EXCEPT ![product.id] = new_price]
                      ELSE lastFetched
    /\ lastCheck' = [id |-> product.id, old_price |-> product.old_price,
                     new_price |-> new_price,
                     alerted |-> alerts'[product.id] # alerts[product.id]]

CheckFetched(product, new_price) ==
    StoreAndAlert(product, new_price, check_product(product.old_price, new_price))

\* one iteration of the loop: fetch, store, alert
CheckProduct ==
    /\ wstage = "checking"
    /\ idx <= Len(products)
    /\ \E in \in CheckInputs(products[idx].use_selenium) :
         CheckFetched(products[idx], fetch_price(in).ret)
    /\ idx' = idx + 1
    /\ UNCHANGED <<products, nextId, cycles, wstage, parseVars, extractVars, fetchVars>>

\* the loop is over: print the summary, sleep
CycleEnd ==
    /\ wstage = "checking"
    /\ idx > Len(products)
    /\ wstage' = "sleeping"
    /\ UNCHANGED <<db, products, idx, nextId, cycles, lastFetched, alerts, changes, lastCheck,
                   parseVars, extractVars, fetchVars>>

InitWorker ==
    /\ db = <<>> /\ products = <<>> /\ idx = 0 /\ nextId = 1 /\ cycles = 0
    /\ lastFetched = NoPrices /\ alerts = NoCounts /\ changes = NoCounts
    /\ lastCheck = NoCheck /\ wstage = "sleeping"
    /\ ParseIdle /\ ExtractIdle /\ FetchIdle

NextWorker == Add \/ Delete \/ CycleStart \/ CheckProduct \/ CycleEnd

SpecWorker == InitWorker /\ [][NextWorker]_vars

\* ================================================================= claims
\* C1: a call of fetch_price_selenium that launched a browser has disposed
\* of it (driver.quit) by the time it returns, on every exit path.
BrowserDisposed == fstage = "returned" => fout.disposed = fout.launched

\* the price a fetch strategy produces: the extractor's result on the
\* markup it captured, nothing when the transport, the browser or the
\* extractor fails
StrategyPrice(outcome, html, css_selector) ==
    IF outcome # "ok" THEN None
    ELSE LET p == extract_price(html, css_selector) IN IF p = Raised THEN None ELSE p

StaticPrice == StrategyPrice(fin.static, fin.static_html, fin.css_selector)
BrowserPrice == StrategyPrice(fin.browser, fin.browser_html, fin.css_selector)

\* C2: fetch_price never lets an exception reach its caller: whatever the
\* static fetch and the browser do and whatever force_selenium is, the call
\* returns a price or None; a failed static fetch followed by browser markup
\* without a price returns None.
NeverPropagates ==
    fstage = "returned" =>
        /\ fout.raised = NoException
        /\ fout.ret = None \/ fout.ret > 0
        /\ (~fin.force_selenium /\ fin.static # "ok" /\ fin.browser = "ok"
               /\ fin.browser_html = PageNoPrice) => fout.ret = None

\* the static fetch failed, the browser captured markup without a price
NeverPropagatesWitness ==
    /\ fstage = "returned"
    /\ ~fin.force_selenium /\ fin.static = "network_error"
    /\ fin.browser = "ok" /\ fin.browser_html = PageNoPrice
    /\ fout.ret = None /\ fout.launched = 1

\* C3: without force_selenium, fetch_price issues the static fetch first and
\* calls the browser fetch if and only if the static strategy produced no
\* price; a static price is returned without launching a browser, otherwise
\* the result is the browser strategy's result; browser markup with "$49.99"
\* after a price-less static page gives 49.99 (for a selector the document
\* parser accepts).
StaticFirst ==
    (fstage = "returned" /\ ~fin.force_selenium) =>
        /\ fout.gets = 1
        /\ fout.browser_calls = (IF StaticPrice = None THEN 1 ELSE 0)
        /\ StaticPrice # None => (fout.ret = StaticPrice /\ fout.launched = 0)
        /\ StaticPrice = None => fout.ret = BrowserPrice
        /\ (fin.css_selector # BadSelector /\ fin.static = "ok"
               /\ fin.static_html = PageNoPrice /\ fin.browser = "ok"
               /\ fin.browser_html = PageScriptPrice) => fout.ret = 4999

\* a price-less static page, then browser markup with "$49.99"
StaticFirstWitness ==
    /\ fstage = "returned"
    /\ ~fin.force_selenium
    /\ fin.static = "ok" /\ fin.static_html = PageNoPrice
    /\ fin.browser = "ok" /\ fin.browser_html = PageScriptPrice
    /\ fout.ret = 4999 /\ fout.browser_calls = 1

\* C4: with force_selenium, fetch_price issues no HTTP GET at all, calls the
\* browser fetch exactly once and returns its result.
ForcedBrowser ==
    (fstage = "returned" /\ fin.force_selenium) =>
        /\ fout.gets = 0
        /\ fout.browser_calls = 1
        /\ fout.ret = BrowserPrice

\* forced browser fetch that fails while the static page has a price
ForcedBrowserWitness ==
    /\ fstage = "returned"
    /\ fin.force_selenium
    /\ fin.static = "ok" /\ fin.static_html = PageItemprop
    /\ fin.browser = "wait_timeout"
    /\ fout.ret = None /\ fout.gets = 0

\* C7: every price parse_price returns through the currency-anchored path
\* satisfies 0.01 < value < 1,000,000, every price it returns through the
\* unanchored fallback satisfies value >= 10, and so every returned price is
\* strictly positive.
ParseBounds ==
    (pstage # "text" /\ price # None) =>
        /\ via \in {"currency", "fallback"}
        /\ via = "currency" => (1 < price /\ price < 100000000)
        /\ via = "fallback" => price >= 1000
        /\ price > 0

\* a price below 10 accepted next to a currency symbol
ParseBoundsWitness == pstage = "parsed" /\ via = "currency" /\ price < 1000

\* C8 as stated: re-parsing str(p) of any accepted price p gives p again.
ReparseStable == pstage = "reparsed" => reprice = price

\* C8 amended: re-parsing str(p) gives p again when p is at least 10 and
\* str(p) ends in ".0" or in two fractional digits, for p below 10^13, where
\* str(p) is exact to the cent (every price of this model is below 10^13).
ReparseStableFromTen ==
    (pstage = "reparsed" /\ price >= 1000 /\ (price % 100 = 0 \/ price % 10 # 0))
        => reprice = price

\* a price with cents, at least 10, parsed and re-parsed
ReparseWitness ==
    pstage = "reparsed" /\ price >= 1000 /\ price % 10 # 0 /\ reprice = price

\* the number read from a text after deleting everything but its digits and
\* its period (the period, when there is one, is followed by two digits)
RECURSIVE DigitsOnly(_)
DigitsOnly(t) ==
    IF t = <<>> THEN <<>>
    ELSE IF Head(t) \in Digits THEN <<Head(t)>> \o DigitsOnly(Tail(t))
    ELSE DigitsOnly(Tail(t))

PlainValue(t) ==
    IF \E i \in 1..Len(t) : t[i] = "." THEN IntOf(DigitsOnly(t)) ELSE 100 * IntOf(DigitsOnly(t))

\* C9: for a currency-anchored text whose number is digits grouped in comma-
\* or space-separated triplets with an optional two-digit fraction after a
\* period, parse_price returns the number read with the commas and spaces
\* deleted, when that number is inside the sanity window; "R 1 299,00" gives
\* 1299.00.
GroupedValue ==
    pstage # "text" =>
        /\ (text \in GroupedTexts /\ 1 < PlainValue(text) /\ PlainValue(text) < 100000000)
               => price = PlainValue(text)
        /\ text = TextSpaceGrouped => price = 129900

\* "R 1 299.50" parsed
GroupedValueWitness ==
    /\ pstage = "parsed"
    /\ text = <<"R", " ", "1", " ", "2", "9", "9", ".", "5", "0">>
    /\ price = 129950

\* the selector stage has a result for this document
SelectorHit(d, css_selector) ==
    /\ css_selector \notin {NoSelector, BadSelector}
    /\ \E i \in 1..Len(d.elements) :
           d.elements[i].sel /\ parse_price(d.elements[i].text) # None

\* C5: when a selector is given and some element it selects has a text
\* parse_price accepts, extract_price returns the parsed price of the first
\* such element in document order, whatever the heuristic probes or the
\* whole-document regex would find.
SelectorPrecedence ==
    (estage = "done" /\ SelectorHit(doc, selector)) =>
        \E i \in 1..Len(doc.elements) :
            /\ doc.elements[i].sel
            /\ parse_price(doc.elements[i].text) # None
            /\ \A j \in 1..(i - 1) :
                   ~(doc.elements[j].sel /\ parse_price(doc.elements[j].text) # None)
            /\ eprice = parse_price(doc.elements[i].text)

\* a selected element priced R50 after a class="price" element priced
\* R1,299.00: the selected element's price is returned
SelectorPrecedenceWitness ==
    /\ estage = "done"
    /\ selector = ".sel"
    /\ Len(doc.elements) = 2
    /\ doc.elements[1].cls = "price" /\ ~doc.elements[1].sel
    /\ doc.elements[1].text = TextRand1299
    /\ doc.elements[2].sel /\ doc.elements[2].text = TextRand50
    /\ eprice = 5000

\* the probe order the claim states
ClaimedProbeOrder ==
    <<"class~price", "id~price", "itemprop=price", "class~cost", "class~amount",
      "data-price", "class~product-price">>

\* element i is a candidate of probe k that parse_price accepts
Accepted(d, k, i) ==
    /\ ProbeMatches(ClaimedProbeOrder[k], d.elements[i])
    /\ parse_price(d.elements[i].text) # None

\* C6: with no selector-stage result, extract_price returns the price of the
\* first candidate parse_price accepts when candidates are enumerated
\* probe-major in the order class~price, id~price, itemprop=price, cost,
\* amount, data-price, product-price and in document order within a probe;
\* an itemprop="price" element "R1,299.00" wins over a class="amount"
\* element "R50" wherever the two stand in the document.
ProbeMajorOrder ==
    (estage = "done" /\ eprice # Raised /\ ~SelectorHit(doc, selector)) =>
        \A k \in 1..7 : \A i \in 1..Len(doc.elements) :
            ( /\ Accepted(doc, k, i)
              /\ \A k2 \in 1..k : \A i2 \in 1..Len(doc.elements) :
                     (k2 < k \/ i2 < i) => ~Accepted(doc, k2, i2) )
            => eprice = parse_price(doc.elements[i].text)

\* class="amount" "R50" first, itemprop="price" "R1,299.00" second: 1299.00
ProbeMajorOrderWitness ==
    /\ estage = "done"
    /\ selector = NoSelector
    /\ Len(doc.elements) = 2
    /\ doc.elements[1].cls = "amount" /\ doc.elements[1].text = TextRand50
    /\ doc.elements[2].itemprop = "price" /\ doc.elements[2].text = TextRand1299
    /\ eprice = 129900

AnchoredRun(t) == IF SymbolFirst(t, 1) # NoMatch THEN SymbolFirst(t, 1) ELSE SymbolLast(t, 1)

\* the text's only numeric run is the anchored run m, and m's value lies
\* outside the sanity window (value <= 0.01 or value >= 1,000,000)
OnlyRunOutside(t, m) ==
    /\ m # NoMatch
    /\ DigitsOnly(m) = DigitsOnly(t)
    /\ \A i \in 1..Len(m) : m[i] # "\t"
    /\ (PlainValue(m) <= 1 \/ PlainValue(m) >= 100000000)

\* C11: for a text whose only numeric run is adjacent to a currency symbol
\* and has a value <= 0.01 or >= 1,000,000 (such as "R2000000"), parse_price
\* returns None: the fragment that failed the sanity window is never
\* returned as the price.
OutsideWindowSkipped ==
    (pstage # "text" /\ OnlyRunOutside(strip(text), AnchoredRun(strip(text))))
        => price = None

\* element i is the document's only price-bearing element: parse_price
\* accepts its text, which holds no currency symbol, the element has no
\* itemprop and no data-price and is not selected, no other element's text
\* is accepted, and the markup outside the elements holds no price
SoleBareCandidate(d, i) ==
    /\ parse_price(d.elements[i].text) # None
    /\ \A k \in 1..Len(d.elements[i].text) : ~IsSym(d.elements[i].text, k)
    /\ d.elements[i].itemprop = "" /\ ~d.elements[i].data_price /\ ~d.elements[i].sel
    /\ \A j \in 1..Len(d.elements) : j # i => parse_price(d.elements[j].text) = None
    /\ d.other = <<>>

\* element i is identified by an id containing "cost" and by no class
ByCostId(e) == e.id = "cost" /\ e.cls = ""

\* element i is identified by a class containing "cost" and by no id
ByCostClass(e) == e.cls = "cost" /\ e.id = ""

\* C12 as stated: a document whose only price-bearing element is identified
\* by an id containing "cost" yields that element's parsed price.
CostIdProbed ==
    (estage = "done" /\ selector # BadSelector) =>
        \A i \in 1..Len(doc.elements) :
            (SoleBareCandidate(doc, i) /\ ByCostId(doc.elements[i]))
                => eprice = parse_price(doc.elements[i].text)

\* C12 amended: the heuristic stage probes elements whose class contains
\* "cost" but not elements whose id contains "cost": a document whose only
\* price-bearing element is identified by a class containing "cost" yields
\* that element's parsed price, one whose only price-bearing element is
\* identified by an id containing "cost" yields None.
CostClassProbed ==
    (estage = "done" /\ selector # BadSelector) =>
        \A i \in 1..Len(doc.elements) :
            SoleBareCandidate(doc, i) =>
                /\ ByCostClass(doc.elements[i]) => eprice = parse_price(doc.elements[i].text)
                /\ ByCostId(doc.elements[i]) => eprice = None

\* an id="cost" element "1299.00" after a price-less element: no price
CostClassProbedWitness ==
    /\ estage = "done"
    /\ selector = NoSelector
    /\ Len(doc.elements) = 2
    /\ doc.elements[1].text = TextNoPrice
    /\ doc.elements[2] = [Plain(TextBare1299) EXCEPT !.id = "cost"]
    /\ doc.other = <<>>
    /\ eprice = None

====
